---- MODULE Spec2Model ----
(***************************************************************************)
(* cw-metrics (src/src/main.rs): the account batch pipeline of the         *)
(* `images` and `config` commands, the per-account download                *)
(* (cloudwatch_image_download -> get_metrics_json -> get_metric_image),    *)
(* the template rendering and the naming of the saved image.               *)
(*                                                                         *)
(* Spec, SpecBatch: main, from get_accounts to the end of the loop.        *)
(* SpecDownload, SpecRender, SpecSave: cloudwatch_image_download and the   *)
(* caller's match on its result, called for the same props up to MaxCalls  *)
(* times; they differ in the inputs they draw.                             *)
(*                                                                         *)
(* Strings are sequences of one-character strings, so that substring       *)
(* search, replacement, number formatting and extension handling are       *)
(* computed as the code computes them.  Option<T> is a sequence of length  *)
(* 0 (None) or 1 (Some(x)).                                                *)
(***************************************************************************)
EXTENDS Integers, Sequences, FiniteSets

\* ------------------------------------------------------------------ bounds
MaxAccounts == 3
MaxPat == 2
MaxClock == 10
MaxCalls == 2
Clock0 == 9
MaxPieces == 2

\* ----------------------------------------------------------------- options
None == << >>
Some(x) == << x >>

\* ----------------------------------------------------------------- strings
\* All strings over alphabet A of length lo..hi.
StringsOver(A, lo, hi) == UNION { [1..n -> A] : n \in lo..hi }

\* Sequences over S of length 0..n.
SeqUpTo(S, n) == UNION { [1..k -> S] : k \in 0..n }

\* str::starts_with
StartsWith(s, p) == Len(p) <= Len(s) /\ SubSeq(s, 1, Len(p)) = p

\* A search that looks at the start of s only.
ContainsPrefixOnly(s, p) == StartsWith(s, p)

\* str::contains(&pat): a substring search, scanning the start positions from
\* the left; case-sensitive, no glob or regex meaning; "" is found everywhere.

RECURSIVE Contains(_, _)
Contains(s, p) ==
  IF StartsWith(s, p) THEN TRUE
  ELSE IF s = << >> THEN FALSE
  ELSE Contains(Tail(s), p)

\* The last (1-based) index of character c in s, 0 when s has none.
RECURSIVE LastIndexOf(_, _)
LastIndexOf(s, c) ==
  IF s = << >> THEN 0
  ELSE IF s[Len(s)] = c THEN Len(s)
  ELSE LastIndexOf(SubSeq(s, 1, Len(s) - 1), c)

\* str::replace(k, v): every non-overlapping match of k, found scanning from
\* the left, is replaced by v; the scan resumes after the match (k is non-empty).
RECURSIVE Replace(_, _, _)
Replace(s, k, v) ==
  IF s = << >> THEN << >>
  ELSE IF StartsWith(s, k) THEN v \o Replace(SubSeq(s, Len(k) + 1, Len(s)), k, v)
  ELSE << Head(s) >> \o Replace(Tail(s), k, v)

\* u64's Display: the decimal digits of n.
DigitChars == <<"0", "1", "2", "3", "4", "5", "6", "7", "8", "9">>

RECURSIVE Decimal(_)
Decimal(n) ==
  IF n < 10 THEN << DigitChars[n + 1] >>
  ELSE Decimal(n \div 10) \o << DigitChars[(n % 10) + 1] >>

\* ------------------------------------------------------ placeholder tokens
TokNamespace == <<"{", "{", "N", "A", "M", "E", "S", "P", "A", "C", "E", "}", "}">>
TokRegion == <<"{", "{", "R", "E", "G", "I", "O", "N", "}", "}">>
TokPeriodStart == <<"{", "{", "P", "E", "R", "I", "O", "D", "_", "S", "T", "A", "R", "T", "}", "}">>
TokPeriodEnd == <<"{", "{", "P", "E", "R", "I", "O", "D", "_", "E", "N", "D", "}", "}">>
TokPeriod == <<"{", "{", "P", "E", "R", "I", "O", "D", "}", "}">>
TokUnknown == <<"{", "{", "T", "I", "T", "L", "E", "}", "}">>

\* --------------------------------------------------------------- variables
VARIABLES
  cmd,            \* the subcommand: "images" | "config"
  fileState,      \* the accounts file: "unreadable" | "malformed" | "ok"
  fileAccounts,   \* the [[account]] tables of the accounts file, in file order
  pattern,        \* --pattern: None or Some(string)
  pc,             \* main's position
  panic,          \* the panic message once the process has panicked, else ""
  accounts,       \* get_accounts' result: None or Some(account list)
  filtered,       \* filter_accounts' result
  idx,            \* the loop's next account (index into filtered)
  credsCalls,     \* number of load_creds calls
  props,          \* the GetWidgetProps handed to cloudwatch_image_download
  templateFile,   \* the widget template file: [readable, contents]
  dpc,            \* cloudwatch_image_download's position
  calls,          \* the number of the current download (1 = the first)
  replaced,       \* get_metrics_json's result: the rendered widget document
  saved_image_name, \* the name built at 277-287
  resp,           \* the response of get_metric_widget_image().send()
  result,         \* cloudwatch_image_download's return value: "Ok" | "Err"
  trace,          \* history: the steps taken, each [call, ev]
  files,          \* the paths written by fs::write, in write order
  outcome,        \* what main printed per download (183-186), in order
  clock,          \* wall-clock time, whole seconds since the epoch
  remote,         \* the batch's environment: per account of the batch, what the
                  \* remote service answers to its request
  disk            \* the batch's environment: per account, whether its write succeeds

mainVars == << cmd, fileState, fileAccounts, pattern, pc, accounts, filtered, idx,
               credsCalls >>
dlVars == << props, templateFile, dpc, calls, replaced, saved_image_name, resp,
             result, trace, files, outcome, clock >>
envVars == << remote, disk >>
vars == << mainVars, dlVars, envVars, panic >>

\* ------------------------------------------------------------------ inputs
NsAlphabet == {"a", "A"}
Namespaces == { <<"a">>, <<"A">>, <<"a", "A">>, <<"A", "a">>, <<"A", "a", "A">> }
Patterns == {None} \cup { Some(p) : p \in StringsOver(NsAlphabet, 0, MaxPat) }

AccountConfig(ns) == [namespace |-> ns, account_id |-> <<"1">>, region |-> <<"r">>]
AccountConfigs == { AccountConfig(ns) : ns \in Namespaces }

RemoteOutcomes == {"image", "empty", "error"}
DiskOutcomes == {"ok", "fail"}

\* main 173-182: the props of one account (region is always Some).
GetWidgetProps(ns, region, title, start) ==
  [title |-> title, region |-> Some(region), app_name |-> ns, start |-> start,
   end |-> <<"0", "H">>, period |-> <<"6", "0">>]

NoFile == [readable |-> FALSE, contents |-> << >>]
TemplateOf(text) == [readable |-> TRUE, contents |-> text]

\* ------------------------------------------------------------ get_accounts
\* read_to_string failed -> None; toml::from_str(..).expect(..) panics on a
\* malformed document; otherwise Some(accounts_config).
get_accounts(state, tables) ==
  IF state = "unreadable" THEN [panic |-> "", value |-> None]
  ELSE IF state = "malformed" THEN [panic |-> "unable to parse as toml", value |-> None]
  ELSE [panic |-> "", value |-> Some(tables)]

\* --------------------------------------------------------- filter_accounts
\* A filter that ignores the pattern.
filter_accounts_keep_all(pat, accs) ==
  IF accs = None
  THEN [panic |-> "expected accounts to filter", value |-> << >>]
  ELSE [panic |-> "", value |-> accs[1]]

filter_accounts(pat, accs) ==
  IF pat # None
  THEN IF accs = None
       THEN [panic |-> "called Option::unwrap() on a None value", value |-> << >>]
       ELSE [panic |-> "",
             value |-> SelectSeq(accs[1], LAMBDA x : Contains(x.namespace, pat[1]))]
  ELSE IF accs = None
       THEN [panic |-> "expected accounts to filter", value |-> << >>]
       ELSE [panic |-> "", value |-> accs[1]]

\* -------------------------------------------------------------- load_creds
\* fn load_creds(account) { todo!() }: panics on every call.
load_creds(account) == [panic |-> "not yet implemented"]

\* -------------------------------------------------------- get_metrics_json
\* 322-330: the HashMap's entries, numbered in insertion order.
template_params(region, namespace, start, end, period) ==
  << [k |-> TokNamespace, v |-> namespace],
     [k |-> TokRegion, v |-> region],
     [k |-> TokPeriodStart, v |-> start],
     [k |-> TokPeriodEnd, v |-> end],
     [k |-> TokPeriod, v |-> period] >>

\* The orders in which HashMap::iter() may yield the five entries: the std
\* HashMap is seeded randomly per map, so any permutation may come.
IterOrders == { o \in [1..5 -> 1..5] : \A i, j \in 1..5 : i # j => o[i] # o[j] }

\* 332-335: replaced = replaced.replace(k, v) for each entry, in iteration order.
RECURSIVE ApplyKeys(_, _, _)
ApplyKeys(text, params, order) ==
  IF order = << >> THEN text
  ELSE ApplyKeys(Replace(text, params[Head(order)].k, params[Head(order)].v),
                 params, Tail(order))

\* 311-345: None when the template file cannot be read.
get_metrics_json(file, region, namespace, start, end, period, order) ==
  IF file.readable
  THEN Some(ApplyKeys(file.contents,
                      template_params(region, namespace, start, end, period), order))
  ELSE None

\* ------------------------------------------------------- naming the image
\* 277-287: format!("{}-{}-{}-{}-{}", namespace, title, replaced_region, start, secs)
SavedImageName(namespace, title, region, start, secs) ==
  namespace \o <<"-">> \o title \o <<"-">> \o region \o <<"-">> \o start
    \o <<"-">> \o Decimal(secs)

\* 393: Path::new(saved_image_name).with_extension("png").  The file name is the
\* part after the last '/'; its stem is the part before its last '.', or all of
\* it when it has no '.' or only a leading one; everything after the stem is
\* dropped and ".png" appended.  (The name ends in a digit, so the file name is
\* never empty and never "..".)
WithExtensionPng(name) ==
  LET slash == LastIndexOf(name, "/")
      fileName == SubSeq(name, slash + 1, Len(name))
      dot == LastIndexOf(fileName, ".")
      stem == IF dot <= 1 THEN fileName ELSE SubSeq(fileName, 1, dot - 1)
  IN SubSeq(name, 1, slash) \o stem \o <<".", "p", "n", "g">>

\* -------------------------------------------------------- get_metric_image
\* 390: request.send().await? returns the error to the caller at once.
SendFails(r) == r = "error"

\* A response taken to carry an image whatever it holds.
HasBlobAlways(r) == TRUE

\* 392: if let Some(blob) = resp.metric_widget_image
HasBlob(r) == r = "image"

\* -------------------------------------------------------------------- main
InitMain ==
  /\ cmd \in {"images", "config"}
  /\ fileState \in {"unreadable", "malformed", "ok"}
  /\ fileAccounts \in (IF fileState = "ok" THEN SeqUpTo(AccountConfigs, MaxAccounts)
                                            ELSE {<< >>})
  /\ pattern \in Patterns
  /\ pc = "start"
  /\ panic = ""
  /\ accounts = None
  /\ filtered = << >>
  /\ idx = 1
  /\ credsCalls = 0

\* No download has been made yet.
DownloadStart ==
  /\ dpc = "off"
  /\ calls = 0
  /\ replaced = << >>
  /\ saved_image_name = << >>
  /\ resp = "none"
  /\ result = "none"
  /\ trace = << >>
  /\ files = << >>
  /\ outcome = << >>
  /\ clock = Clock0

DownloadIdle ==
  /\ DownloadStart
  /\ props = GetWidgetProps(<<"a">>, <<"r">>, <<"m">>, <<"1", "H">>)
  /\ templateFile = NoFile

\* An environment in which every request and every write would succeed.
BatchEnvIdle ==
  /\ remote = [i \in 1..MaxAccounts |-> "image"]
  /\ disk = [i \in 1..MaxAccounts |-> "ok"]

Init ==
  /\ InitMain
  /\ DownloadIdle
  /\ BatchEnvIdle

\* main 168 / 201: let accounts = get_accounts(config_path, true);
GetAccounts ==
  /\ pc = "start"
  /\ LET r == get_accounts(fileState, fileAccounts) IN
       IF r.panic # ""
       THEN /\ pc' = "panicked"
            /\ panic' = r.panic
            /\ UNCHANGED accounts
       ELSE /\ pc' = "loaded"
            /\ accounts' = r.value
            /\ UNCHANGED panic
  /\ UNCHANGED << cmd, fileState, fileAccounts, pattern, filtered, idx,
                  credsCalls, dlVars, envVars >>

\* main 169 / 202: let accounts = filter_accounts(pattern, accounts);
\* `config` ends here (203, 207); `images` enters the loop.
FilterAccounts ==
  /\ pc = "loaded"
  /\ LET r == filter_accounts(pattern, accounts) IN
       IF r.panic # ""
       THEN /\ pc' = "panicked"
            /\ panic' = r.panic
            /\ UNCHANGED filtered
       ELSE /\ pc' = IF cmd = "images" THEN "loop" ELSE "done"
            /\ filtered' = r.value
            /\ UNCHANGED panic
  /\ UNCHANGED << cmd, fileState, fileAccounts, pattern, accounts, idx,
                  credsCalls, dlVars, envVars >>

\* main 171-172: for acc in accounts { load_creds(&acc); ...
\* load_creds never returns, so lines 173-186 are not reached from main.
LoadCreds ==
  /\ pc = "loop"
  /\ idx <= Len(filtered)
  /\ credsCalls' = credsCalls + 1
  /\ pc' = "panicked"
  /\ panic' = load_creds(filtered[idx]).panic
  /\ UNCHANGED << cmd, fileState, fileAccounts, pattern, accounts, filtered, idx,
                  dlVars, envVars >>

\* main 187-188, 207: the loop is exhausted; Ok(()).
Finish ==
  /\ pc = "loop"
  /\ idx > Len(filtered)
  /\ pc' = "done"
  /\ UNCHANGED << cmd, fileState, fileAccounts, pattern, panic, accounts, filtered,
                  idx, credsCalls, dlVars, envVars >>

Next == GetAccounts \/ FilterAccounts \/ LoadCreds \/ Finish

Spec == Init /\ [][Next]_vars

\* The images batch in an environment that fixes, per account of the batch,
\* what the remote service would answer and whether the write would succeed.
InitBatch ==
  /\ InitMain
  /\ cmd = "images"
  /\ fileState = "ok"
  /\ Len(fileAccounts) = MaxAccounts
  /\ DownloadIdle
  /\ remote \in [1..MaxAccounts -> RemoteOutcomes]
  /\ disk \in [1..MaxAccounts -> DiskOutcomes]

SpecBatch == InitBatch /\ [][Next]_vars

\* ------------------------------------------- cloudwatch_image_download
\* The download of one account, entered at the call of line 183 (main cannot
\* reach it: load_creds panics), and repeated for the same props.
Step(ev) == [call |-> calls, ev |-> ev]

\* 237-267: destructure the props, resolve the region, build the client.
DownloadCall ==
  /\ dpc = "idle"
  /\ dpc' = "client"
  /\ trace' = Append(trace, Step("client"))
  /\ UNCHANGED << props, templateFile, calls, replaced, saved_image_name, resp,
                  result, files, outcome, clock, mainVars, envVars, panic >>

\* 268-276, 289-291: get_metrics_json(..); None is a panic.
GetMetricsJson ==
  /\ dpc = "client"
  /\ \E order \in IterOrders :
       LET m == get_metrics_json(templateFile, props.region[1], props.app_name,
                                 props.start, props.end, props.period, order) IN
         IF m = None
         THEN /\ dpc' = "panicked"
              /\ panic' = "unable to parse metrics json"
              /\ UNCHANGED << replaced, trace >>
         ELSE /\ dpc' = "rendered"
              /\ replaced' = m[1]
              /\ trace' = Append(trace, Step("render"))
              /\ UNCHANGED panic
  /\ UNCHANGED << props, templateFile, calls, saved_image_name, resp, result, files,
                  outcome, clock, mainVars, envVars >>

\* 277-287: the name, with the clock read at this moment.
FormatName ==
  /\ dpc = "rendered"
  /\ saved_image_name' = SavedImageName(props.app_name, props.title, props.region[1],
                                        props.start, clock)
  /\ dpc' = "named"
  /\ trace' = Append(trace, Step("name"))
  /\ UNCHANGED << props, templateFile, calls, replaced, resp, result, files, outcome,
                  clock, mainVars, envVars, panic >>

\* The history's entry for the answer r to a request.
Answer(r) ==
  IF r = "image" THEN "answer: image"
  ELSE IF r = "empty" THEN "answer: no image" ELSE "answer: error"

\* 384-390: send the request; an error returns Err from get_metric_image and,
\* through line 288, from cloudwatch_image_download.
SendRequest ==
  /\ dpc = "named"
  /\ \E r \in RemoteOutcomes :
       /\ resp' = r
       /\ trace' = trace \o << Step("request"), Step(Answer(r)) >>
       /\ IF SendFails(r)
          THEN /\ result' = "Err"
               /\ dpc' = "returned"
          ELSE /\ dpc' = "responded"
               /\ UNCHANGED result
  /\ UNCHANGED << props, templateFile, calls, replaced, saved_image_name, files,
                  outcome, clock, mainVars, envVars, panic >>

\* 392-411: write the blob when there is one; every branch returns Ok(()).
SaveImage ==
  /\ dpc = "responded"
  /\ IF HasBlob(resp)
     THEN \E d \in DiskOutcomes :
            IF d = "ok"
            THEN /\ files' = Append(files, WithExtensionPng(saved_image_name))
                 /\ trace' = Append(trace, Step("saved metric image"))
            ELSE /\ trace' = Append(trace, Step("error writing to file"))
                 /\ UNCHANGED files
     ELSE /\ trace' = Append(trace, Step("error getting metric image"))
          /\ UNCHANGED files
  /\ result' = "Ok"
  /\ dpc' = "returned"
  /\ UNCHANGED << props, templateFile, calls, replaced, saved_image_name, resp,
                  outcome, clock, mainVars, envVars, panic >>

\* 183-186: the caller's match on the result.
Report ==
  /\ dpc = "returned"
  /\ outcome' = Append(outcome, IF result = "Ok" THEN "successful query"
                                                  ELSE "cloudwatch download error")
  /\ dpc' = "reported"
  /\ UNCHANGED << props, templateFile, calls, replaced, saved_image_name, resp,
                  result, trace, files, clock, mainVars, envVars, panic >>

\* 183: the first download, and after it the next one for the identical
\* (namespace, title, region, start).
CallAgain ==
  /\ dpc \in {"off", "reported"}
  /\ calls < MaxCalls
  /\ calls' = calls + 1
  /\ dpc' = "idle"
  /\ resp' = "none"
  /\ result' = "none"
  /\ UNCHANGED << props, templateFile, replaced, saved_image_name, trace, files,
                  outcome, clock, mainVars, envVars, panic >>

\* 283-286: SystemTime::now() .. as_secs().  Time passes at any moment; the
\* clock is read only at line 283, so it is enough to let it move just before.
Tick ==
  /\ dpc = "rendered"
  /\ clock < MaxClock
  /\ clock' = clock + 1
  /\ UNCHANGED << props, templateFile, dpc, calls, replaced, saved_image_name, resp,
                  result, trace, files, outcome, mainVars, envVars, panic >>

NextDownload ==
  \/ CallAgain
  \/ DownloadCall
  \/ GetMetricsJson
  \/ FormatName
  \/ SendRequest
  \/ SaveImage
  \/ Report
  \/ Tick

\* main is not running.
MainIdle ==
  /\ cmd = "images"
  /\ fileState = "ok"
  /\ fileAccounts = << >>
  /\ pattern = None
  /\ pc = "off"
  /\ panic = ""
  /\ accounts = None
  /\ filtered = << >>
  /\ idx = 1
  /\ credsCalls = 0

\* A widget template with one region and one namespace token.
SimpleTemplate ==
  <<"{">> \o TokRegion \o <<":">> \o TokNamespace \o <<"}">>

InitDownload ==
  /\ MainIdle
  /\ DownloadStart
  /\ props \in { GetWidgetProps(ns, <<"r">>, <<"m">>, <<"1", "H">>) : ns \in {<<"a">>, <<"b">>} }
  /\ templateFile \in {NoFile, TemplateOf(SimpleTemplate)}
  /\ BatchEnvIdle

SpecDownload == InitDownload /\ [][NextDownload]_vars

\* Rendering: templates made of up to MaxPieces pieces, and a namespace that
\* may itself hold a placeholder token (it comes from the accounts file).
Pieces == { TokNamespace, TokRegion, TokPeriod, TokPeriodStart, TokUnknown, <<"x">> }

RECURSIVE Concat(_)
Concat(ps) == IF ps = << >> THEN << >> ELSE Head(ps) \o Concat(Tail(ps))

Templates == { Concat(ps) : ps \in SeqUpTo(Pieces, MaxPieces) }

InitRender ==
  /\ MainIdle
  /\ DownloadStart
  /\ props \in { GetWidgetProps(ns, <<"r">>, <<"m">>, <<"1", "H">>) :
                   ns \in {<<"n">>, TokRegion} }
  /\ templateFile \in { TemplateOf(t) : t \in Templates }
  /\ BatchEnvIdle

SpecRender == InitRender /\ [][NextDownload]_vars

\* Saving: name components with and without '.' and '/'.
InitSave ==
  /\ MainIdle
  /\ DownloadStart
  /\ props \in { GetWidgetProps(ns, <<"r">>, <<"m">>, start) :
                   ns \in {<<"n">>, <<"n", ".", "m">>, <<"A", "/", "n">>},
                   start \in {<<"1", "H">>, <<"1", ".", "5", "H">>} }
  /\ templateFile = TemplateOf(TokRegion)
  /\ BatchEnvIdle

SpecSave == InitSave /\ [][NextDownload]_vars

\* ------------------------------------------------------------------ claims
\* What the history says of download (or batch account) c.
Happened(c, ev) == \E i \in DOMAIN trace : trace[i].call = c /\ trace[i].ev = ev
Requested(c) == Happened(c, "request")
Saved(c) == Happened(c, "saved metric image")
WriteEvents == {"saved metric image", "error writing to file"}

\* p occurs in s: some window of s spells p.
Occurs(s, p) ==
  \E i \in 0..(Len(s) - Len(p)) : \A k \in 1..Len(p) : s[i + k] = p[k]

\* The positions of the accounts file that the pattern selects.
Kept ==
  { i \in 1..Len(fileAccounts) :
      pattern = None \/ Occurs(fileAccounts[i].namespace, pattern[1]) }

\* filter_accounts has returned.
FilterReturned == pc \in {"loop", "done"} \/ credsCalls > 0

\* C1: in the images batch, an account whose remote request fails stops
\* nothing: once the batch has ended, every other account of the filtered list
\* has been processed through its own request, and each of those whose request
\* and write succeed has its image saved.
C1_FailureIsolation ==
  pc \in {"done", "panicked"} =>
    \A i \in 1..Len(filtered) :
      remote[i] = "error" =>
        \A j \in (1..Len(filtered)) \ {i} :
          /\ Requested(j)
          /\ (remote[j] = "image" /\ disk[j] = "ok") => Saved(j)

\* C2: a load_creds failure for an account ends only that account: no request
\* is issued for it, and the process goes on with the batch instead of
\* terminating.
C2_CredentialFailureSkipsAccount ==
  credsCalls > 0 => (pc \in {"loop", "done"} /\ ~Requested(credsCalls))

\* C3: a download whose image write failed is not reported by the caller as a
\* successful query.
C3_WriteFailureReported ==
  \A c \in DOMAIN outcome :
    Happened(c, "error writing to file") => outcome[c] # "successful query"

\* C4: when the accounts are loaded and the pattern matches no namespace, the
\* images command resolves no credentials, sends no request, writes no file,
\* does not panic, and its loop has nothing to do but finish.
C4_NoMatchDoesNothing ==
  (cmd = "images" /\ fileState = "ok" /\ pattern # None /\ Kept = {}) =>
    /\ credsCalls = 0
    /\ trace = << >>
    /\ files = << >>
    /\ pc # "panicked"
    /\ panic = ""
    /\ pc \in {"loop", "done"} => filtered = << >>

C4_Witness ==
  /\ cmd = "images"
  /\ pc = "done"
  /\ pattern # None
  /\ Len(fileAccounts) = MaxAccounts
  /\ Kept = {}

\* C5: once filter_accounts has returned, its result is the accounts at the
\* selected positions, in file order: as many as are selected, the k-th result
\* being the account at the k-th selected position; without a pattern it is the
\* whole list.
C5_FilterIsSelectedSubsequence ==
  FilterReturned =>
    /\ Len(filtered) = Cardinality(Kept)
    /\ \A i \in Kept :
         filtered[Cardinality({ j \in Kept : j <= i })] = fileAccounts[i]
    /\ pattern = None => filtered = fileAccounts

C5_Witness ==
  /\ pc = "done"
  /\ pattern # None
  /\ pattern[1] # << >>
  /\ Len(pattern[1]) = 2
  /\ Len(fileAccounts) = 3
  /\ Kept = {1, 3}
  /\ fileAccounts[1] # fileAccounts[3]
  /\ ~StartsWith(fileAccounts[3].namespace, pattern[1])
  /\ filtered = << fileAccounts[1], fileAccounts[3] >>

\* The template text with every token occurrence replaced by its value in one
\* pass from the left, all other text kept.
RECURSIVE ReplaceAllTokens(_, _)
ReplaceAllTokens(s, params) ==
  IF s = << >> THEN << >>
  ELSE IF \E i \in DOMAIN params : StartsWith(s, params[i].k)
  THEN LET i == CHOOSE i \in DOMAIN params : StartsWith(s, params[i].k)
       IN params[i].v \o ReplaceAllTokens(SubSeq(s, Len(params[i].k) + 1, Len(s)), params)
  ELSE << Head(s) >> \o ReplaceAllTokens(Tail(s), params)

PropsParams ==
  template_params(props.region[1], props.app_name, props.start, props.end,
                  props.period)

Rendered == dpc \in {"rendered", "named", "responded", "returned", "reported"}

\* C6: the rendered document is the template text with every occurrence of
\* each of the five tokens replaced by that token's value and all other text
\* unchanged.
C6_EveryOccurrenceReplaced ==
  Rendered => replaced = ReplaceAllTokens(templateFile.contents, PropsParams)

\* C7: the rendered document is the one every order of the per-key
\* replacements yields.
C7_OrderIndependent ==
  Rendered =>
    \A o \in IterOrders : ApplyKeys(templateFile.contents, PropsParams, o) = replaced

\* C8: the saves for the identical (namespace, title, region, start) wrote to
\* pairwise distinct paths.
C8_DistinctPaths ==
  \A i, j \in DOMAIN files : i # j => files[i] # files[j]

\* C9: with an unreadable accounts file the command does not panic, and
\* filtering yields the empty list, so that no account is processed.
C9_UnreadableConfigIsNoAccounts ==
  fileState = "unreadable" =>
    /\ pc # "panicked"
    /\ pc \in {"loop", "done"} => filtered = << >>
    /\ credsCalls = 0

\* Entry i of the history is preceded, within its own download, by an ev entry.
Before(i, ev) ==
  \E j \in 1..(i - 1) : trace[j].call = trace[i].call /\ trace[j].ev = ev

\* C10: within one download the steps are sequential: the template is rendered
\* before the request is sent and never after it, the request is answered
\* before a write is tried, a write is tried only after an answer that carried
\* an image, a download whose request failed tries no write, and only
\* successful writes leave a file.
C10_StepsSequential ==
  /\ \A i \in DOMAIN trace :
       /\ trace[i].ev = "request" => Before(i, "render")
       /\ trace[i].ev = "render" => ~Before(i, "request")
       /\ trace[i].ev \in WriteEvents =>
            /\ Before(i, "request")
            /\ Before(i, "answer: image")
       /\ trace[i].ev = "answer: error" =>
            \A w \in WriteEvents : ~Happened(trace[i].call, w)
  /\ Len(files) = Cardinality({ i \in DOMAIN trace : trace[i].ev = "saved metric image" })

C10_Witness ==
  /\ dpc = "reported"
  /\ calls = 2
  /\ Happened(1, "answer: error")
  /\ outcome[1] = "cloudwatch download error"
  /\ Saved(2)
  /\ Len(files) = 1

====
